---- MODULE Spec2Model ----
(***************************************************************************)
(* Model of turtle_brick/run_turtle.py: the RunTurtle node.                *)
(*                                                                         *)
(* Numbers are fixed point, because TLC has 32-bit integers only:          *)
(*   lengths (x, y, z, targets, offsets)  in 1e-7 m                        *)
(*   linear velocities (vx, vy)           in 1e-5 m/s                      *)
(*   time (dt)                            in 1e-2 s                        *)
(*   angles (theta, tilt angles)          in 1e-6 rad                      *)
(*   wheel angle (wheel_pos)              in 1e-3 rad                      *)
(*   wheel rate (wheel_omg)               in 1e-1 rad/s                    *)
(*   wheel radius                         in 1e-4 m                        *)
(*   cosines, sines, quaternion parts     in 2^-16                         *)
(* so that velocity * dt is a length and wheel_omg * dt a wheel angle      *)
(* without any conversion factor.                                          *)
(***************************************************************************)
EXTENDS Integers, Sequences, FiniteSets, TLC

VARIABLES
    \* fields of the node (RunTurtle.__init__)
    wheel_pos, tip_pos, x, y, z, theta,
    world_odom_x, world_odom_y, world_odom_z,
    targetX, targetY,
    swivel_omg, vx, vy,
    goalpose, pose, turtlepose,
    \* the topics: last message published and number of messages published
    tf_static, joint_states, tf, odom, cmd_vel, sent,
    \* the logger: number of warnings emitted
    warnings,
    \* the last Tilt message delivered to the tilt subscription
    tilt_msg,
    \* the executor: position inside timer_callback, number of timer
    \* firings, and the lifecycle of the process
    pc, ticks, sched,
    \* the build: whether the generated message classes check the type of
    \* the values assigned to their fields (the assert of the rosidl setters,
    \* present or not with the distribution and with python -O)
    check_fields

fields == <<wheel_pos, tip_pos, x, y, z, theta, world_odom_x, world_odom_y,
            world_odom_z, targetX, targetY, swivel_omg, vx, vy,
            goalpose, pose, turtlepose>>
topics == <<tf_static, joint_states, tf, odom, cmd_vel, sent>>
vars == <<fields, topics, warnings, tilt_msg, pc, ticks, sched, check_fields>>

----------------------------------------------------------------------------
(* Bounds of the model *)

\* number of timer firings explored with all the handlers enabled
MaxTicks == 3
\* number of timer firings explored when no update arrives
MaxRunTicks == 1450
\* number of timer firings explored from the positions drawn around the goal

----------------------------------------------------------------------------
(* Program constants *)

wheel_radius == 3236            \* 0.2 * 1.618 m
wheel_omg == 8                  \* 0.8 rad/s
world_targetX == 90000000       \* 9 m
world_targetY == 70000000       \* 7 m
frequency == 100                \* Hz
dt == 100 \div frequency        \* 1/frequency s, in 1e-2 s

----------------------------------------------------------------------------
(* math.atan2, math.cos, math.sin in fixed point (CORDIC, 20 iterations)   *)

Pi == 3141593
HalfPi == 1570796
CordicN == 20
\* atan(2^-i) in 1e-6 rad, i = 0 .. CordicN-1
AtanTable == <<785398, 463648, 244979, 124355, 62419, 31240, 15624, 7812,
               3906, 1953, 977, 488, 244, 122, 61, 31, 15, 8, 4, 2>>
\* 2^28 / (CORDIC gain)
CordicK == 163008219
TrigOne == 65536

Abs(a) == IF a < 0 THEN -a ELSE a
Max(a, b) == IF a < b THEN b ELSE a

RECURSIVE Pow2(_)
Pow2(i) == IF i = 0 THEN 1 ELSE 2 * Pow2(i - 1)

\* arithmetic shift right
Shr(a, i) == a \div Pow2(i)

\* vectoring mode: drives b to 0, accumulates the angle of (a, b), a > 0
RECURSIVE Vectoring(_, _, _, _)
Vectoring(a, b, ang, i) ==
    IF i = CordicN THEN ang
    ELSE IF b >= 0
         THEN Vectoring(a + Shr(b, i), b - Shr(a, i), ang + AtanTable[i + 1], i + 1)
         ELSE Vectoring(a - Shr(b, i), b + Shr(a, i), ang - AtanTable[i + 1], i + 1)

\* scale a vector up to working precision; the angle is unchanged
RECURSIVE ScaleUp(_, _)
ScaleUp(a, b) ==
    IF Max(Abs(a), Abs(b)) < Pow2(26) THEN ScaleUp(2 * a, 2 * b) ELSE <<a, b>>

\* math.atan2(b, a) in 1e-6 rad, in (-Pi, Pi]; atan2(0, 0) = 0
Atan2(b, a) ==
    IF b = 0 THEN (IF a >= 0 THEN 0 ELSE Pi)
    ELSE IF a = 0 THEN (IF b > 0 THEN HalfPi ELSE -HalfPi)
    ELSE IF a < 0
         THEN LET s == ScaleUp(-a, -b)
                  r == Vectoring(s[1], s[2], 0, 0)
              IN  IF b > 0 THEN r + Pi ELSE r - Pi
         ELSE LET s == ScaleUp(a, b)
              IN  Vectoring(s[1], s[2], 0, 0)

\* rotation mode: rotates (a, b) by ang, |ang| <= HalfPi
RECURSIVE Rotation(_, _, _, _)
Rotation(a, b, ang, i) ==
    IF i = CordicN THEN <<a, b>>
    ELSE IF ang >= 0
         THEN Rotation(a - Shr(b, i), b + Shr(a, i), ang - AtanTable[i + 1], i + 1)
         ELSE Rotation(a + Shr(b, i), b - Shr(a, i), ang + AtanTable[i + 1], i + 1)

\* <<cos, sin>> of an angle in [-Pi, Pi], in 2^-16
CosSin(ang) ==
    LET r == IF ang > HalfPi THEN Rotation(CordicK, 0, ang - Pi, 0)
             ELSE IF ang < -HalfPi THEN Rotation(CordicK, 0, ang + Pi, 0)
             ELSE Rotation(CordicK, 0, ang, 0)
        sgn == IF ang > HalfPi \/ ang < -HalfPi THEN -1 ELSE 1
    IN  <<sgn * Shr(r[1] + Pow2(11), 12), sgn * Shr(r[2] + Pow2(11), 12)>>

Cos(ang) == IF ang = 0 THEN TrigOne ELSE CosSin(ang)[1]
Sin(ang) == IF ang = 0 THEN 0 ELSE CosSin(ang)[2]

\* wheel_radius * wheel_omg * c for a cosine or sine c, rounded to 1e-5 m/s
Speed(c) == Shr(wheel_radius * wheel_omg * c + TrigOne \div 2, 16)

----------------------------------------------------------------------------
(* Messages *)

\* a float64 field of an inbound message: finite with a value, or not finite
Fin(v) == [fin |-> TRUE, val |-> v]
NaN == [fin |-> FALSE, val |-> 0]

\* geometry_msgs/PoseStamped, turtlesim/Pose: the position they carry
Position(px, py) == [x |-> px, y |-> py]
IsFinite(p) == p.x.fin /\ p.y.fin

\* turtle_brick_interfaces/Tilt
Tilt(a) == [tilt_angle |-> a]

\* quaternion.angle_axis_to_quaternion: q = (cos(a/2), sin(a/2) * v)
angle_axis_to_quaternion(a, v) ==
    [w |-> Cos(a \div 2),
     x |-> (Sin(a \div 2) * v[1]),
     y |-> (Sin(a \div 2) * v[2]),
     z |-> (Sin(a \div 2) * v[3])]

\* the default rotation of a geometry_msgs/Transform
IdentityRotation == [w |-> TrigOne, x |-> 0, y |-> 0, z |-> 0]

turtle_twist(xdot, ydot, omega) ==
    [linear |-> <<xdot, ydot, 0>>, angular |-> <<0, 0, omega>>]

TransformStamped(parent, child, trans, rot) ==
    [frame_id |-> parent, child_frame_id |-> child,
     translation |-> trans, rotation |-> rot]

JointState(names, positions) == [name |-> names, position |-> positions]

Odometry(child, pos, orient, twist) ==
    [child_frame_id |-> child, position |-> pos, orientation |-> orient,
     twist |-> twist]

----------------------------------------------------------------------------
(* Inputs delivered by the subscriptions *)

GoalInputs == {Position(Fin(10000000), Fin(20000000)),
               Position(Fin(-15000000), Fin(5000000)),
               Position(NaN, Fin(20000000))}
PoseInputs == {Position(Fin(55444450), Fin(55444450)),
               Position(Fin(10000000), NaN)}
TiltInputs == {Tilt(-187000), Tilt(500000)}

----------------------------------------------------------------------------
(* RunTurtle.__init__ *)

\* an attribute the constructor has not assigned yet
Unset == "unset"

\* main has called rclpy.init and RunTurtle(): the constructor is before its
\* first assignment, nothing has been sent
Init ==
    /\ wheel_pos = Unset
    /\ tip_pos = Unset
    /\ x = Unset
    /\ y = Unset
    /\ z = Unset
    /\ theta = Unset
    /\ world_odom_x = Unset
    /\ world_odom_y = Unset
    /\ world_odom_z = Unset
    /\ tf_static = <<>>
    /\ targetX = Unset
    /\ targetY = Unset
    /\ swivel_omg = Unset
    /\ vx = Unset
    /\ vy = Unset
    /\ goalpose = Unset
    /\ pose = Unset
    /\ turtlepose = <<>>
    /\ joint_states = JointState(<<>>, <<>>)
    /\ tf = TransformStamped("", "", <<0, 0, 0>>, IdentityRotation)
    /\ odom = Odometry("", <<0, 0, 0>>, IdentityRotation, turtle_twist(0, 0, 0))
    /\ cmd_vel = turtle_twist(0, 0, 0)
    /\ sent = [joint |-> 0, tf |-> 0, odom |-> 0, cmd |-> 0]
    /\ warnings = 0
    /\ tilt_msg = <<>>
    /\ pc = "l54"
    /\ ticks = 0
    /\ sched = "Running"
    /\ check_fields \in BOOLEAN

----------------------------------------------------------------------------
(* main: callbacks run in rclpy.spin, one at a time *)

\* the executor takes the next callback only when none is running
Dispatch == sched = "Running" /\ pc = "idle"

\* the constructor or the callback running continues at position p
Continue(p) == sched = "Running" /\ pc = p

----------------------------------------------------------------------------
(* RunTurtle.__init__, a statement at a time; pc names the line executed next *)

\* the positions inside the constructor, and before rclpy.spin
InitPcs == {"l54", "l55", "l57", "l58", "l59", "l60", "l62", "l63", "l64",
            "l69", "l77", "l78", "l82", "l83", "l84", "l104", "l108", "l211"}

\* the constructor has returned and rclpy.spin runs (or ran)
Constructed == pc \notin InitPcs

\* line 54
Construct_wheel_pos ==
    /\ Continue("l54")
    /\ wheel_pos' = 0
    /\ pc' = "l55"
    /\ UNCHANGED <<tip_pos, x, y, z, theta, world_odom_x, world_odom_y,
                   world_odom_z, targetX, targetY, swivel_omg, vx, vy,
                   goalpose, pose, turtlepose, tf_static, joint_states, tf,
                   odom, cmd_vel, sent, warnings, tilt_msg, ticks, sched,
                   check_fields>>

\* lines 55-56 (self.tip is read nowhere)
Construct_tip_pos ==
    /\ Continue("l55")
    /\ tip_pos' = 0
    /\ pc' = "l57"
    /\ UNCHANGED <<wheel_pos, x, y, z, theta, world_odom_x, world_odom_y,
                   world_odom_z, targetX, targetY, swivel_omg, vx, vy,
                   goalpose, pose, turtlepose, tf_static, joint_states, tf,
                   odom, cmd_vel, sent, warnings, tilt_msg, ticks, sched,
                   check_fields>>

\* line 57
Construct_x ==
    /\ Continue("l57")
    /\ x' = 0
    /\ pc' = "l58"
    /\ UNCHANGED <<wheel_pos, tip_pos, y, z, theta, world_odom_x,
                   world_odom_y, world_odom_z, targetX, targetY, swivel_omg,
                   vx, vy, goalpose, pose, turtlepose, tf_static,
                   joint_states, tf, odom, cmd_vel, sent, warnings, tilt_msg,
                   ticks, sched, check_fields>>

\* line 58
Construct_y ==
    /\ Continue("l58")
    /\ y' = 0
    /\ pc' = "l59"
    /\ UNCHANGED <<wheel_pos, tip_pos, x, z, theta, world_odom_x,
                   world_odom_y, world_odom_z, targetX, targetY, swivel_omg,
                   vx, vy, goalpose, pose, turtlepose, tf_static,
                   joint_states, tf, odom, cmd_vel, sent, warnings, tilt_msg,
                   ticks, sched, check_fields>>

\* line 59
Construct_z ==
    /\ Continue("l59")
    /\ z' = 0
    /\ pc' = "l60"
    /\ UNCHANGED <<wheel_pos, tip_pos, x, y, theta, world_odom_x,
                   world_odom_y, world_odom_z, targetX, targetY, swivel_omg,
                   vx, vy, goalpose, pose, turtlepose, tf_static,
                   joint_states, tf, odom, cmd_vel, sent, warnings, tilt_msg,
                   ticks, sched, check_fields>>

\* line 60
Construct_theta ==
    /\ Continue("l60")
    /\ theta' = 0
    /\ pc' = "l62"
    /\ UNCHANGED <<wheel_pos, tip_pos, x, y, z, world_odom_x, world_odom_y,
                   world_odom_z, targetX, targetY, swivel_omg, vx, vy,
                   goalpose, pose, turtlepose, tf_static, joint_states, tf,
                   odom, cmd_vel, sent, warnings, tilt_msg, ticks, sched,
                   check_fields>>

\* line 62
Construct_world_odom_x ==
    /\ Continue("l62")
    /\ world_odom_x' = 55500000
    /\ pc' = "l63"
    /\ UNCHANGED <<wheel_pos, tip_pos, x, y, z, theta, world_odom_y,
                   world_odom_z, targetX, targetY, swivel_omg, vx, vy,
                   goalpose, pose, turtlepose, tf_static, joint_states, tf,
                   odom, cmd_vel, sent, warnings, tilt_msg, ticks, sched,
                   check_fields>>

\* line 63
Construct_world_odom_y ==
    /\ Continue("l63")
    /\ world_odom_y' = 55500000
    /\ pc' = "l64"
    /\ UNCHANGED <<wheel_pos, tip_pos, x, y, z, theta, world_odom_x,
                   world_odom_z, targetX, targetY, swivel_omg, vx, vy,
                   goalpose, pose, turtlepose, tf_static, joint_states, tf,
                   odom, cmd_vel, sent, warnings, tilt_msg, ticks, sched,
                   check_fields>>

\* line 64
Construct_world_odom_z ==
    /\ Continue("l64")
    /\ world_odom_z' = 0
    /\ pc' = "l69"
    /\ UNCHANGED <<wheel_pos, tip_pos, x, y, z, theta, world_odom_x,
                   world_odom_y, targetX, targetY, swivel_omg, vx, vy,
                   goalpose, pose, turtlepose, tf_static, joint_states, tf,
                   odom, cmd_vel, sent, warnings, tilt_msg, ticks, sched,
                   check_fields>>

\* lines 66-69: the static transform, sent once
Construct_sendTransform ==
    /\ Continue("l69")
    /\ tf_static' = Append(tf_static,
                   TransformStamped("world", "odom",
                       <<world_odom_x, world_odom_y, world_odom_z>>,
                       IdentityRotation))
    /\ pc' = "l77"
    /\ UNCHANGED <<wheel_pos, tip_pos, x, y, z, theta, world_odom_x,
                   world_odom_y, world_odom_z, targetX, targetY, swivel_omg,
                   vx, vy, goalpose, pose, turtlepose, joint_states, tf,
                   odom, cmd_vel, sent, warnings, tilt_msg, ticks, sched,
                   check_fields>>

\* lines 73-77
Construct_targetX ==
    /\ Continue("l77")
    /\ targetX' = world_targetX - world_odom_x
    /\ pc' = "l78"
    /\ UNCHANGED <<wheel_pos, tip_pos, x, y, z, theta, world_odom_x,
                   world_odom_y, world_odom_z, targetY, swivel_omg, vx, vy,
                   goalpose, pose, turtlepose, tf_static, joint_states, tf,
                   odom, cmd_vel, sent, warnings, tilt_msg, ticks, sched,
                   check_fields>>

\* line 78
Construct_targetY ==
    /\ Continue("l78")
    /\ targetY' = world_targetY - world_odom_y
    /\ pc' = "l82"
    /\ UNCHANGED <<wheel_pos, tip_pos, x, y, z, theta, world_odom_x,
                   world_odom_y, world_odom_z, targetX, swivel_omg, vx, vy,
                   goalpose, pose, turtlepose, tf_static, joint_states, tf,
                   odom, cmd_vel, sent, warnings, tilt_msg, ticks, sched,
                   check_fields>>

\* lines 81-82
Construct_swivel_omg ==
    /\ Continue("l82")
    /\ swivel_omg' = 0
    /\ pc' = "l83"
    /\ UNCHANGED <<wheel_pos, tip_pos, x, y, z, theta, world_odom_x,
                   world_odom_y, world_odom_z, targetX, targetY, vx, vy,
                   goalpose, pose, turtlepose, tf_static, joint_states, tf,
                   odom, cmd_vel, sent, warnings, tilt_msg, ticks, sched,
                   check_fields>>

\* line 83
Construct_vx ==
    /\ Continue("l83")
    /\ vx' = Speed(Cos(theta))
    /\ pc' = "l84"
    /\ UNCHANGED <<wheel_pos, tip_pos, x, y, z, theta, world_odom_x,
                   world_odom_y, world_odom_z, targetX, targetY, swivel_omg,
                   vy, goalpose, pose, turtlepose, tf_static, joint_states,
                   tf, odom, cmd_vel, sent, warnings, tilt_msg, ticks, sched,
                   check_fields>>

\* line 84
Construct_vy ==
    /\ Continue("l84")
    /\ vy' = Speed(Sin(theta))
    /\ pc' = "l104"
    /\ UNCHANGED <<wheel_pos, tip_pos, x, y, z, theta, world_odom_x,
                   world_odom_y, world_odom_z, targetX, targetY, swivel_omg,
                   vx, goalpose, pose, turtlepose, tf_static, joint_states,
                   tf, odom, cmd_vel, sent, warnings, tilt_msg, ticks, sched,
                   check_fields>>

\* lines 87-104: timer, publishers and goal subscription created,
\* self.goalpose a default PoseStamped
Construct_goalpose ==
    /\ Continue("l104")
    /\ goalpose' = Position(Fin(0), Fin(0))
    /\ pc' = "l108"
    /\ UNCHANGED <<wheel_pos, tip_pos, x, y, z, theta, world_odom_x,
                   world_odom_y, world_odom_z, targetX, targetY, swivel_omg,
                   vx, vy, pose, turtlepose, tf_static, joint_states, tf,
                   odom, cmd_vel, sent, warnings, tilt_msg, ticks, sched,
                   check_fields>>

\* lines 107-108
Construct_pose ==
    /\ Continue("l108")
    /\ pose' = Position(Fin(0), Fin(0))
    /\ pc' = "l211"
    /\ UNCHANGED <<wheel_pos, tip_pos, x, y, z, theta, world_odom_x,
                   world_odom_y, world_odom_z, targetX, targetY, swivel_omg,
                   vx, vy, goalpose, turtlepose, tf_static, joint_states, tf,
                   odom, cmd_vel, sent, warnings, tilt_msg, ticks, sched,
                   check_fields>>

\* lines 111 and 211: the constructor returns and main enters rclpy.spin
spin ==
    /\ Continue("l211")
    /\ pc' = "idle"
    /\ UNCHANGED <<fields, topics, warnings, tilt_msg, ticks, sched,
                   check_fields>>

----------------------------------------------------------------------------
(* RunTurtle.timer_callback *)

\* The state update is seven assignments, one step each; inside it pc names
\* the line the callback executes next ("l119" .. "l134").
\* the positions before each of the four outputs
EmitPcs == {"joint", "tf", "odom", "cmd"}

\* line 118: the timer fires and the wheel accumulator advances
AdvanceWheel ==
    /\ Dispatch
    /\ ticks' = ticks + 1
    /\ wheel_pos' = wheel_pos + wheel_omg * dt
    /\ pc' = "l119"
    /\ UNCHANGED <<tip_pos, x, y, z, theta, world_odom_x, world_odom_y,
                   world_odom_z, targetX, targetY, swivel_omg, vx, vy,
                   goalpose, pose, turtlepose, topics, warnings, check_fields, tilt_msg,
                   sched>>

\* line 119 left out: the wheel accumulator advanced once per tick
AdvanceWheelAgain_Dropped ==
    /\ Continue("l119")
    /\ pc' = "l125"
    /\ UNCHANGED <<fields, topics, warnings, check_fields, tilt_msg, ticks, sched>>

\* line 119 followed by line 121 restored: the tip angle follows self.tip
AdvanceWheelAgain_TipFromFlag ==
    /\ Continue("l119")
    /\ wheel_pos' = wheel_pos + wheel_omg * dt
    /\ tip_pos' = 0
    /\ pc' = "l125"
    /\ UNCHANGED <<x, y, z, theta, world_odom_x, world_odom_y,
                   world_odom_z, targetX, targetY, swivel_omg, vx, vy,
                   goalpose, pose, turtlepose, topics, warnings, check_fields, tilt_msg,
                   ticks, sched>>

\* line 119: the same assignment again
AdvanceWheelAgain ==
    /\ Continue("l119")
    /\ wheel_pos' = wheel_pos + wheel_omg * dt
    /\ pc' = "l125"
    /\ UNCHANGED <<tip_pos, x, y, z, theta, world_odom_x, world_odom_y,
                   world_odom_z, targetX, targetY, swivel_omg, vx, vy,
                   goalpose, pose, turtlepose, topics, warnings, check_fields, tilt_msg,
                   ticks, sched>>

\* line 125 with the velocity taken toward the goal from the position held
MoveX_HeadingFirst ==
    /\ Continue("l125")
    /\ x' = x + Speed(Cos(Atan2(targetY - y, targetX - x))) * dt
    /\ pc' = "l126"
    /\ UNCHANGED <<wheel_pos, tip_pos, y, z, theta, world_odom_x,
                   world_odom_y, world_odom_z, targetX, targetY, swivel_omg,
                   vx, vy, goalpose, pose, turtlepose, topics, warnings, check_fields,
                   tilt_msg, ticks, sched>>

\* line 125
MoveX ==
    /\ Continue("l125")
    /\ x' = x + vx * dt
    /\ pc' = "l126"
    /\ UNCHANGED <<wheel_pos, tip_pos, y, z, theta, world_odom_x,
                   world_odom_y, world_odom_z, targetX, targetY, swivel_omg,
                   vx, vy, goalpose, pose, turtlepose, topics, warnings, check_fields,
                   tilt_msg, ticks, sched>>

\* line 126
MoveY ==
    /\ Continue("l126")
    /\ y' = y + vy * dt
    /\ pc' = "l132"
    /\ UNCHANGED <<wheel_pos, tip_pos, x, z, theta, world_odom_x,
                   world_odom_y, world_odom_z, targetX, targetY, swivel_omg,
                   vx, vy, goalpose, pose, turtlepose, topics, warnings, check_fields,
                   tilt_msg, ticks, sched>>

\* line 132 replaced by line 127: the heading integrated from the angular rate
Bearing_Integrated ==
    /\ Continue("l132")
    /\ theta' = Atan2(Sin(theta + swivel_omg * dt), Cos(theta + swivel_omg * dt))
    /\ pc' = "l133"
    /\ UNCHANGED <<wheel_pos, tip_pos, x, y, z, world_odom_x, world_odom_y,
                   world_odom_z, targetX, targetY, swivel_omg, vx, vy,
                   goalpose, pose, turtlepose, topics, warnings, check_fields, tilt_msg,
                   ticks, sched>>

\* line 132 with the angular rate taken from the change of heading
Bearing_SwivelRate ==
    /\ Continue("l132")
    /\ theta' = Atan2(targetY - y, targetX - x)
    /\ swivel_omg' = (theta' - theta) \div dt
    /\ pc' = "l133"
    /\ UNCHANGED <<wheel_pos, tip_pos, x, y, z, world_odom_x, world_odom_y,
                   world_odom_z, targetX, targetY, vx, vy,
                   goalpose, pose, turtlepose, topics, warnings, check_fields, tilt_msg,
                   ticks, sched>>

\* line 132
Bearing ==
    /\ Continue("l132")
    /\ theta' = Atan2(targetY - y, targetX - x)
    /\ pc' = "l133"
    /\ UNCHANGED <<wheel_pos, tip_pos, x, y, z, world_odom_x, world_odom_y,
                   world_odom_z, targetX, targetY, swivel_omg, vx, vy,
                   goalpose, pose, turtlepose, topics, warnings, check_fields, tilt_msg,
                   ticks, sched>>

\* line 133
VelocityX ==
    /\ Continue("l133")
    /\ vx' = Speed(Cos(theta))
    /\ pc' = "l134"
    /\ UNCHANGED <<wheel_pos, tip_pos, x, y, z, theta, world_odom_x,
                   world_odom_y, world_odom_z, targetX, targetY, swivel_omg,
                   vy, goalpose, pose, turtlepose, topics, warnings, check_fields,
                   tilt_msg, ticks, sched>>

\* line 134
VelocityY ==
    /\ Continue("l134")
    /\ vy' = Speed(Sin(theta))
    /\ pc' = "joint"
    /\ UNCHANGED <<wheel_pos, tip_pos, x, y, z, theta, world_odom_x,
                   world_odom_y, world_odom_z, targetX, targetY, swivel_omg,
                   vx, goalpose, pose, turtlepose, topics, warnings, check_fields,
                   tilt_msg, ticks, sched>>

\* lines 118-134: the state update, a statement at a time
TickUpdate ==
    \/ AdvanceWheel
    \/ AdvanceWheelAgain
    \/ MoveX
    \/ MoveY
    \/ Bearing
    \/ VelocityX
    \/ VelocityY

\* tip_pos is the int 0 of line 55 until update_tilt assigns the float of a
\* Tilt message (line 206); wheel_pos and theta are floats from lines 118
\* and 132 on
TipIsFloat == tilt_msg # <<>>

\* lines 137-142. The setter of JointState.position (line 140) is given
\* [wheel_pos, theta, tip_pos]: where it checks its values, an int among
\* them raises AssertionError, which leaves the callback and rclpy.spin
\* before anything is published, and main ends.
PublishJointState ==
    /\ Continue("joint")
    /\ IF check_fields /\ ~TipIsFloat
       THEN /\ sched' = "Raised"
            /\ UNCHANGED <<fields, topics, warnings, check_fields, tilt_msg,
                           pc, ticks>>
       ELSE /\ joint_states' = JointState(<<"wheel_axle", "swivel", "tip">>,
                                          <<wheel_pos, theta, tip_pos>>)
            /\ sent' = [sent EXCEPT !.joint = @ + 1]
            /\ pc' = "tf"
            /\ UNCHANGED <<fields, tf_static, tf, odom, cmd_vel, warnings,
                           check_fields, tilt_msg, ticks, sched>>

\* the dynamic transform sent, and world->odom sent again from the pose
SendTransform_Restatic ==
    /\ Continue("tf")
    /\ tf' = TransformStamped("odom", "base_link", <<x, y, 0>>,
                              angle_axis_to_quaternion(0, <<0, 0, 1>>))
    /\ tf_static' = Append(tf_static,
                           TransformStamped("world", "odom",
                               <<world_odom_x + x, world_odom_y + y, world_odom_z>>,
                               IdentityRotation))
    /\ sent' = [sent EXCEPT !.tf = @ + 1]
    /\ pc' = "odom"
    /\ UNCHANGED <<fields, joint_states, odom, cmd_vel, warnings, check_fields,
                   tilt_msg, ticks, sched>>

\* the dynamic transform with the rotation of line 151: by the heading
SendTransform_ByTheta ==
    /\ Continue("tf")
    /\ tf' = TransformStamped("odom", "base_link", <<x, y, 0>>,
                              angle_axis_to_quaternion(theta, <<0, 0, 1>>))
    /\ sent' = [sent EXCEPT !.tf = @ + 1]
    /\ pc' = "odom"
    /\ UNCHANGED <<fields, tf_static, joint_states, odom, cmd_vel, warnings, check_fields,
                   tilt_msg, ticks, sched>>

\* lines 144-154
SendTransform ==
    /\ Continue("tf")
    /\ tf' = TransformStamped("odom", "base_link", <<x, y, 0>>,
                              angle_axis_to_quaternion(0, <<0, 0, 1>>))
    /\ sent' = [sent EXCEPT !.tf = @ + 1]
    /\ pc' = "odom"
    /\ UNCHANGED <<fields, tf_static, joint_states, odom, cmd_vel, warnings, check_fields,
                   tilt_msg, ticks, sched>>

\* lines 157-168
PublishOdometry ==
    /\ Continue("odom")
    /\ odom' = Odometry("base_link", <<x, y, z>>,
                        angle_axis_to_quaternion(0, <<0, 0, 1>>),
                        [linear |-> <<vx, vy, 0>>,
                         angular |-> <<0, 0, swivel_omg>>])
    /\ sent' = [sent EXCEPT !.odom = @ + 1]
    /\ pc' = "cmd"
    /\ UNCHANGED <<fields, tf_static, joint_states, tf, cmd_vel, warnings, check_fields,
                   tilt_msg, ticks, sched>>

\* lines 172-173
PublishCmdVel ==
    /\ Continue("cmd")
    /\ cmd_vel' = turtle_twist(vx, vy, swivel_omg)
    /\ sent' = [sent EXCEPT !.cmd = @ + 1]
    /\ pc' = "idle"
    /\ UNCHANGED <<fields, tf_static, joint_states, tf, odom, warnings, check_fields,
                   tilt_msg, ticks, sched>>

----------------------------------------------------------------------------
(* The subscription callbacks *)

\* a goal update that reaches the target, one coordinate only
update_goalpose_Torn(data) ==
    /\ Dispatch
    /\ goalpose' = data
    /\ targetX' = data.x.val
    /\ UNCHANGED <<wheel_pos, tip_pos, x, y, z, theta, world_odom_x,
                   world_odom_y, world_odom_z, targetY, swivel_omg,
                   vx, vy, pose, turtlepose, topics, warnings, check_fields, tilt_msg, pc,
                   ticks, sched>>

update_goalpose(data) ==
    /\ Dispatch
    /\ goalpose' = data
    /\ UNCHANGED <<wheel_pos, tip_pos, x, y, z, theta, world_odom_x,
                   world_odom_y, world_odom_z, targetX, targetY, swivel_omg,
                   vx, vy, pose, turtlepose, topics, warnings, check_fields, tilt_msg, pc,
                   ticks, sched>>

\* a pose observation that overrides the position of the robot
update_turtlepose_Relocates(data) ==
    /\ Dispatch
    /\ turtlepose' = <<data>>
    /\ x' = data.x.val
    /\ y' = data.y.val
    /\ UNCHANGED <<wheel_pos, tip_pos, z, theta, world_odom_x,
                   world_odom_y, world_odom_z, targetX, targetY, swivel_omg,
                   vx, vy, goalpose, pose, topics, warnings, check_fields, tilt_msg, pc,
                   ticks, sched>>

update_turtlepose(data) ==
    /\ Dispatch
    /\ turtlepose' = <<data>>
    /\ UNCHANGED <<wheel_pos, tip_pos, x, y, z, theta, world_odom_x,
                   world_odom_y, world_odom_z, targetX, targetY, swivel_omg,
                   vx, vy, goalpose, pose, topics, warnings, check_fields, tilt_msg, pc,
                   ticks, sched>>

update_tilt(data) ==
    /\ Dispatch
    /\ tilt_msg' = <<data>>
    /\ tip_pos' = data.tilt_angle
    /\ UNCHANGED <<wheel_pos, x, y, z, theta, world_odom_x, world_odom_y,
                   world_odom_z, targetX, targetY, swivel_omg, vx, vy,
                   goalpose, pose, turtlepose, topics, warnings, check_fields, pc, ticks,
                   sched>>

----------------------------------------------------------------------------
(* main: the end of the process *)

\* SIGINT: KeyboardInterrupt is raised in the main thread, wherever it is,
\* in the constructor (line 210) or in rclpy.spin (line 211); main catches
\* nothing, so the constructor or the callback running is cut at its
\* position and the process ends.
KeyboardInterrupt ==
    /\ sched = "Running"
    /\ sched' = "Stopped"
    /\ UNCHANGED <<fields, topics, warnings, check_fields, tilt_msg, pc, ticks>>

----------------------------------------------------------------------------
(* Specifications *)

Next ==
    \/ Construct_wheel_pos
    \/ Construct_tip_pos
    \/ Construct_x
    \/ Construct_y
    \/ Construct_z
    \/ Construct_theta
    \/ Construct_world_odom_x
    \/ Construct_world_odom_y
    \/ Construct_world_odom_z
    \/ Construct_sendTransform
    \/ Construct_targetX
    \/ Construct_targetY
    \/ Construct_swivel_omg
    \/ Construct_vx
    \/ Construct_vy
    \/ Construct_goalpose
    \/ Construct_pose
    \/ spin
    \/ (ticks < MaxTicks /\ AdvanceWheel)
    \/ AdvanceWheelAgain
    \/ MoveX
    \/ MoveY
    \/ Bearing
    \/ VelocityX
    \/ VelocityY
    \/ PublishJointState
    \/ SendTransform
    \/ PublishOdometry
    \/ PublishCmdVel
    \/ \E data \in GoalInputs : update_goalpose(data)
    \/ \E data \in PoseInputs : update_turtlepose(data)
    \/ \E data \in TiltInputs : update_tilt(data)
    \/ KeyboardInterrupt

Spec == Init /\ [][Next]_vars

\* the goal is stationary: no goal and no pose arrives, tilt commands may
NextRun ==
    \/ Construct_wheel_pos
    \/ Construct_tip_pos
    \/ Construct_x
    \/ Construct_y
    \/ Construct_z
    \/ Construct_theta
    \/ Construct_world_odom_x
    \/ Construct_world_odom_y
    \/ Construct_world_odom_z
    \/ Construct_sendTransform
    \/ Construct_targetX
    \/ Construct_targetY
    \/ Construct_swivel_omg
    \/ Construct_vx
    \/ Construct_vy
    \/ Construct_goalpose
    \/ Construct_pose
    \/ spin
    \/ (ticks < MaxRunTicks /\ AdvanceWheel)
    \/ AdvanceWheelAgain
    \/ MoveX
    \/ MoveY
    \/ Bearing
    \/ VelocityX
    \/ VelocityY
    \/ PublishJointState
    \/ SendTransform
    \/ PublishOdometry
    \/ PublishCmdVel
    \/ \E data \in TiltInputs : update_tilt(data)

SpecRun == Init /\ [][NextRun]_vars

----------------------------------------------------------------------------
(* Properties *)

\* a tick has taken its bearing (line 132) and no later tick has begun
AfterBearing == ticks > 0 /\ pc \notin {"l119", "l125", "l126", "l132"}
\* the tick running (or cut) has updated the state and not finished
InTick == pc \in EmitPcs
\* the tick running (or cut) has moved the position and not yet sent it
Moved == pc \in {"l132", "l133", "l134", "joint", "tf"}
\* every tick started has emitted each of its four outputs
AllEmitted ==
    /\ sent.joint = ticks /\ sent.tf = ticks
    /\ sent.odom = ticks /\ sent.cmd = ticks

\* C1: once update_goalpose has delivered a position g, every tick computes
\* its heading and its velocity toward g.
C1_GoalUpdateTakesEffect ==
    (InTick /\ goalpose \in GoalInputs /\ IsFinite(goalpose)) =>
        /\ theta = Atan2(goalpose.y.val - y, goalpose.x.val - x)
        /\ vx = Speed(Cos(theta))
        /\ vy = Speed(Sin(theta))

\* C2: each tick emits exactly one joint snapshot, one odometry snapshot,
\* one velocity command and one dynamic transform, all from the same
\* post-update state: whenever no tick is running any more, every tick
\* started has emitted its four outputs, and they agree with each other.
C2_OneBundlePerTick ==
    (ticks > 0 /\ (pc = "idle" \/ sched # "Running")) =>
        /\ AllEmitted
        /\ odom.position[1] = tf.translation[1]
        /\ odom.position[2] = tf.translation[2]
        /\ odom.twist = cmd_vel
        /\ cmd_vel.linear[1] = Speed(Cos(joint_states.position[2]))
        /\ cmd_vel.linear[2] = Speed(Sin(joint_states.position[2]))

\* the constructor has not reached its sendTransform (line 69) yet
BeforeStatic ==
    pc \in {"l54", "l55", "l57", "l58", "l59", "l60", "l62", "l63", "l64", "l69"}

\* C3: the static world->odom transform is emitted exactly once, at startup:
\* nothing is on /tf_static before line 69 of the constructor, and from line
\* 69 on, whatever runs or cuts the process, exactly one message is, with
\* the offset; the offset (world_odom_x, world_odom_y, world_odom_z) keeps
\* the value the constructor gave it.
C3_StaticTransformOnce ==
    /\ BeforeStatic => tf_static = <<>>
    /\ ~BeforeStatic =>
           /\ Len(tf_static) = 1
           /\ tf_static[1].frame_id = "world"
           /\ tf_static[1].child_frame_id = "odom"
           /\ tf_static[1].translation = <<55500000, 55500000, 0>>
           /\ <<world_odom_x, world_odom_y, world_odom_z>>
                  = <<55500000, 55500000, 0>>

C3_Witness ==
    /\ ticks >= 2 /\ pc = "idle" /\ AllEmitted
    /\ goalpose \in GoalInputs /\ turtlepose # <<>> /\ tilt_msg # <<>>

\* C4: after every tick the heading, which is the swivel joint value
\* published, is atan2(goal.y - y, goal.x - x) from the post-update position
\* to the goal the tick holds (targetX, targetY).
C4_HeadingIsBearing ==
    /\ AfterBearing => theta = Atan2(targetY - y, targetX - x)
    /\ (AfterBearing /\ pc \in {"tf", "odom", "cmd", "idle"}) =>
           joint_states.position[2] = Atan2(targetY - y, targetX - x)

C4_Witness ==
    /\ ticks >= 2 /\ pc = "idle" /\ sent.joint = ticks
    /\ joint_states.position[2] # 0
    /\ y # 0

\* squared distance from a position to the goal, in (1e-4 m)^2
DistSq(px, py) ==
    ((targetX - px) \div 1000) * ((targetX - px) \div 1000)
    + ((targetY - py) \div 1000) * ((targetY - py) \div 1000)

\* C5: with a stationary goal, no tick increases the distance from the
\* position to the goal: the position a tick has moved to is no farther from
\* the goal than the position before it, which is the translation of the
\* last transform sent (the starting position in the first tick).
C5_DistanceNeverIncreases ==
    Moved => DistSq(x, y) <= DistSq(tf.translation[1], tf.translation[2])

\* C6: an update carrying a non-finite coordinate leaves the stored value
\* unchanged and surfaces a warning, in update_goalpose and update_turtlepose.
C6_NonFiniteRejected ==
    [][/\ \A data \in GoalInputs :
            (~IsFinite(data) /\ update_goalpose(data)) =>
                (goalpose' = goalpose /\ warnings' = warnings + 1)
       /\ \A data \in PoseInputs :
            (~IsFinite(data) /\ update_turtlepose(data)) =>
                (turtlepose' = turtlepose /\ warnings' = warnings + 1)]_vars

\* the goals a tick may see in full: the goal set at construction and the
\* goals delivered by updates
WholeGoals ==
    {<<world_targetX - 55500000, world_targetY - 55500000>>}
    \cup {<<g.x.val, g.y.val>> : g \in GoalInputs}

\* C7: the two goal coordinates a tick takes its bearing from belong to one
\* goal, the old one or the new one, never one coordinate of each.
C7_NoTornGoal ==
    /\ Constructed => <<targetX, targetY>> \in WholeGoals
    /\ AfterBearing =>
           \E g \in WholeGoals : theta = Atan2(g[2] - y, g[1] - x)

C7_Witness ==
    /\ pc = "joint" /\ ticks >= 2
    /\ goalpose \in GoalInputs /\ IsFinite(goalpose)

\* the tilt angle of the last tilt command received, 0 when there is none
LatestTilt == IF tilt_msg = <<>> THEN 0 ELSE tilt_msg[1].tilt_angle

\* C8: the tip value of every joint snapshot emitted is the tilt angle of the
\* most recent tilt command (0 when none was received).
C8_TipIsLatestTilt ==
    [][sent'.joint # sent.joint =>
           joint_states'.position[3] = LatestTilt]_vars

C8_Witness ==
    /\ pc = "tf" /\ sent.joint >= 2
    /\ tilt_msg # <<>>
    /\ joint_states.position[3] = 500000

\* the state of the robot
RobotState == <<x, y, theta, wheel_pos, tip_pos, vx, vy>>
\* the part of it the motion law computes
Kinematics == <<x, y, theta, wheel_pos, vx, vy>>

\* C9: every field of the state of the robot (position, heading, wheel
\* accumulator, joint tilt value, velocity), once the constructor has set
\* it, changes only in timer_callback.
C9_TickOnlyWriter ==
    [][Constructed => (RobotState' # RobotState => TickUpdate)]_vars

\* C9, amended: once the constructor has set them, position, heading, wheel
\* accumulator and velocity change only in timer_callback; the joint tilt value tip_pos changes only in
\* update_tilt, and timer_callback leaves it alone.
C9_WritersOfRobotState ==
    [][Constructed =>
           /\ Kinematics' # Kinematics => TickUpdate
           /\ tip_pos' # tip_pos => \E data \in TiltInputs : update_tilt(data)
           /\ TickUpdate => tip_pos' = tip_pos]_vars

C9_Witness ==
    /\ ticks >= 2 /\ pc = "idle"
    /\ tip_pos # 0 /\ x # 0
    /\ goalpose \in GoalInputs /\ turtlepose # <<>>

\* C10: shutdown is safe mid-tick: when the process has been stopped while
\* rclpy.spin ran, every tick that had started has emitted its four outputs.
C10_ShutdownFinishesTick ==
    (sched = "Stopped" /\ Constructed) => (pc = "idle" /\ AllEmitted)

\* the velocity left by the tick before the one running: the velocity
\* command that tick published, and in the first tick the velocity set at
\* construction, at heading 0
VelocityBefore ==
    IF ticks = 1 THEN <<Speed(Cos(0)), Speed(Sin(0))>>
    ELSE <<cmd_vel.linear[1], cmd_vel.linear[2]>>

\* C11: the position update precedes the heading refresh: the displacement of
\* a tick, from the position of the last transform sent, is dt times the
\* velocity left by the tick before, coordinate by coordinate as lines 125
\* and 126 apply it, whatever heading the tick then takes.
C11_PositionBeforeHeading ==
    /\ pc = "l126" =>
           /\ x = tf.translation[1] + VelocityBefore[1] * dt
           /\ y = tf.translation[2]
    /\ Moved =>
           /\ x = tf.translation[1] + VelocityBefore[1] * dt
           /\ y = tf.translation[2] + VelocityBefore[2] * dt

\* the second tick has moved the position by the velocity command of the
\* first; the first moved it along heading 0, not along the heading it set
C11_Witness ==
    /\ ticks = 2 /\ pc = "joint"
    /\ x = tf.translation[1] + cmd_vel.linear[1] * dt
    /\ y = tf.translation[2] + cmd_vel.linear[2] * dt
    /\ tf.translation = <<Speed(Cos(0)) * dt, 0, 0>>
    /\ cmd_vel.linear[1] # Speed(Cos(0))

\* C12: every tick increases wheel_pos by exactly 2 * wheel_omg * dt, in the
\* two equal assignments of lines 118 and 119, and nothing else changes it,
\* so it never decreases: past line 119 it is 2 * wheel_omg * dt times the
\* number of ticks, between the two lines it is one wheel_omg * dt short.
C12_WheelAdvancedTwice ==
    [][Constructed =>
           /\ wheel_pos' >= wheel_pos
           /\ wheel_pos' # wheel_pos => (AdvanceWheel \/ AdvanceWheelAgain)
           /\ pc' = "l119" =>
                  wheel_pos' = 2 * wheel_omg * dt * ticks' - wheel_omg * dt
           /\ pc' # "l119" => wheel_pos' = 2 * wheel_omg * dt * ticks']_vars

C12_Witness ==
    /\ ticks = 3 /\ pc = "idle" /\ sent.joint = 3
    /\ wheel_pos = 3 * 2 * wheel_omg * dt
    /\ joint_states.position[1] = wheel_pos
    /\ tilt_msg # <<>> /\ goalpose \in GoalInputs /\ turtlepose # <<>>

\* C13: the rotation of the odom->base_link transform and the orientation of
\* the odometry snapshot are built with angle zero in every tick: both are
\* the identity rotation, also when theta is not zero.
C13_RotationAlwaysIdentity ==
    /\ tf.rotation = IdentityRotation
    /\ odom.orientation = IdentityRotation

C13_Witness ==
    /\ pc = "cmd" /\ sent.tf = ticks /\ sent.odom = ticks
    /\ theta # 0
    /\ odom.twist.linear[2] # 0

\* C16: the angular rate in the odometry twist and in the velocity command
\* is 0 on every tick, and swivel_omg keeps the value set at construction.
C16_AngularRateZero ==
    /\ Constructed => swivel_omg = 0
    /\ odom.twist.angular = <<0, 0, 0>>
    /\ cmd_vel.angular = <<0, 0, 0>>

\* the first tick has turned the heading from 0 and published its commands
C16_Witness ==
    /\ ticks = 1 /\ pc = "idle" /\ AllEmitted
    /\ joint_states.position[2] # 0
    /\ cmd_vel.linear[2] # 0

\* one step of the motion law on <<x, y, theta, vx, vy>>, for the goal held
KinStep(k) ==
    LET nx == k[1] + k[4] * dt
        ny == k[2] + k[5] * dt
        th == Atan2(targetY - ny, targetX - nx)
    IN  <<nx, ny, th, Speed(Cos(th)), Speed(Sin(th))>>

\* <<x, y, theta, vx, vy>> after n ticks from construction
RECURSIVE KinAfter(_)
KinAfter(n) ==
    IF n = 0 THEN <<0, 0, 0, Speed(Cos(0)), Speed(Sin(0))>>
    ELSE KinStep(KinAfter(n - 1))

\* C14: the pose observations are never consulted: each output of each tick
\* is a function of the number of ticks, the goal held and the last tilt
\* command alone, so that two runs that differ only in their pose
\* observations emit the same outputs on every tick.
C14_PoseNeverConsulted ==
    LET k == KinAfter(ticks)
        q == [w |-> TrigOne, x |-> 0, y |-> 0, z |-> 0]
    IN  /\ pc \in {"tf", "odom", "cmd"} =>
               joint_states = JointState(<<"wheel_axle", "swivel", "tip">>,
                                  <<2 * wheel_omg * dt * ticks, k[3], LatestTilt>>)
        /\ pc \in {"odom", "cmd"} =>
               tf = TransformStamped("odom", "base_link", <<k[1], k[2], 0>>, q)
        /\ pc = "cmd" =>
               odom = Odometry("base_link", <<k[1], k[2], 0>>, q,
                               turtle_twist(k[4], k[5], 0))
        /\ (pc = "idle" /\ ticks > 0) =>
               cmd_vel = turtle_twist(k[4], k[5], 0)

\* a tick emits its outputs after a pose observation was stored
C14_Witness ==
    /\ pc = "cmd" /\ ticks >= 2
    /\ turtlepose = <<Position(Fin(55444450), Fin(55444450))>>
    /\ odom.position[1] # 0

====
